---- MODULE Spec2Model ----
(***************************************************************************)
(* A model of the XML/CSV converter of src/src/main.rs.                    *)
(*                                                                         *)
(* A String is a sequence of one-character strings.  A tree of XMLNode is  *)
(* an arena: a sequence of records, a node being its index, node 1 the     *)
(* root, parent 0 standing for None.                                       *)
(***************************************************************************)
EXTENDS Integers, Sequences, FiniteSets, TLC

(***************************************************************************)
(* Bounds of the model.                                                    *)
(***************************************************************************)
MaxRawLen == 4
MaxItems == 3
MaxRecords == 2
MaxCsvLen == 5

(***************************************************************************)
(* Strings.                                                                *)
(***************************************************************************)
NUL == "NUL"

Whitespace == {" ", "\n", "\t"}

RECURSIVE TrimStart(_)
TrimStart(s) ==
    IF s = <<>> THEN <<>>
    ELSE IF Head(s) \in Whitespace THEN TrimStart(Tail(s))
    ELSE s

RECURSIVE TrimEnd(_)
TrimEnd(s) ==
    IF s = <<>> THEN <<>>
    ELSE IF s[Len(s)] \in Whitespace THEN TrimEnd(SubSeq(s, 1, Len(s) - 1))
    ELSE s

Trim(s) == TrimEnd(TrimStart(s))

RECURSIVE Repeat(_, _)
Repeat(s, n) == IF n = 0 THEN <<>> ELSE s \o Repeat(s, n - 1)

RECURSIVE Join(_, _)
Join(parts, sep) ==
    IF parts = <<>> THEN <<>>
    ELSE IF Len(parts) = 1 THEN parts[1]
    ELSE parts[1] \o sep \o Join(Tail(parts), sep)

RECURSIVE SplitAcc(_, _, _)
SplitAcc(s, sep, cur) ==
    IF s = <<>> THEN <<cur>>
    ELSE IF Head(s) = sep THEN <<cur>> \o SplitAcc(Tail(s), sep, <<>>)
    ELSE SplitAcc(Tail(s), sep, Append(cur, Head(s)))

Split(s, sep) == SplitAcc(s, sep, <<>>)

Pop(s) == IF s = <<>> THEN <<>> ELSE SubSeq(s, 1, Len(s) - 1)

Digit(d) == <<"0", "1", "2", "3", "4", "5", "6", "7", "8", "9">>[d + 1]

RECURSIVE ToDecimal(_)
ToDecimal(n) == IF n < 10 THEN <<Digit(n)>> ELSE Append(ToDecimal(n \div 10), Digit(n % 10))

(***************************************************************************)
(* XMLTerm.                                                                *)
(***************************************************************************)
OpeningTag(s) == [tag |-> "OpeningTag", s |-> s]
ClosingTag(s) == [tag |-> "ClosingTag", s |-> s]
Text(s) == [tag |-> "Text", s |-> s]
NoneTerm == [tag |-> "None", s |-> <<>>]

get_string(term) == term.s

push_term_NoTrim(terms, current_term) ==
    IF Len(get_string(current_term)) > 0 THEN Append(terms, current_term) ELSE terms

push_term_KeepEmpty(terms, current_term) ==
    LET new_term == IF current_term.tag = "None" THEN NoneTerm
                    ELSE [tag |-> current_term.tag, s |-> Trim(current_term.s)]
    IN Append(terms, new_term)

push_term(terms, current_term) ==
    LET new_term == IF current_term.tag = "None" THEN NoneTerm
                    ELSE [tag |-> current_term.tag, s |-> Trim(current_term.s)]
    IN IF Len(get_string(new_term)) > 0 THEN Append(terms, new_term) ELSE terms

(***************************************************************************)
(* lexer: the state of its loop and one iteration of the loop.             *)
(***************************************************************************)
LexerInit ==
    [terms |-> <<>>, current_term |-> NoneTerm, previous_char |-> NUL,
     skip_until_next_line |-> FALSE, err |-> ""]

LexerSkipReset_KeepTerm(st, c) ==
    IF c = "\n" /\ st.skip_until_next_line
    THEN [st EXCEPT !.skip_until_next_line = FALSE,
                    !.previous_char = NUL]
    ELSE st

LexerSkipReset(st, c) ==
    IF c = "\n" /\ st.skip_until_next_line
    THEN [st EXCEPT !.skip_until_next_line = FALSE,
                    !.previous_char = NUL,
                    !.current_term = NoneTerm]
    ELSE st

LexerOpenAngle(st) ==
    LET flushed == IF st.current_term.tag = "Text"
                   THEN [st EXCEPT !.terms = push_term(st.terms, st.current_term),
                                   !.current_term = NoneTerm]
                   ELSE st
    IN IF flushed.current_term.tag = "None"
       THEN [flushed EXCEPT !.current_term = OpeningTag(<<>>)]
       ELSE [flushed EXCEPT !.err = "Unexpected '<'"]

LexerCloseAngle(st) ==
    IF st.current_term.tag \in {"OpeningTag", "ClosingTag"}
    THEN [st EXCEPT !.terms = push_term(st.terms, st.current_term),
                    !.current_term = NoneTerm]
    ELSE [st EXCEPT !.err = "Unexpected '>'"]

LexerSlash_AnyPosition(st) ==
    IF st.current_term.tag = "OpeningTag"
    THEN [st EXCEPT !.current_term = ClosingTag(st.current_term.s)]
    ELSE [st EXCEPT !.err = "Unexpected '/'"]

LexerSlash(st) ==
    IF st.current_term.tag = "OpeningTag" /\ st.previous_char = "<"
    THEN [st EXCEPT !.current_term = ClosingTag(st.current_term.s)]
    ELSE [st EXCEPT !.err = "Unexpected '/'"]

LexerOther(st, c) ==
    LET started == IF st.current_term.tag = "None"
                   THEN [st EXCEPT !.current_term = Text(<<>>)]
                   ELSE st
    IN [started EXCEPT !.current_term.s = Append(started.current_term.s, c)]

LexerStep(st, c) ==
    LET s1 == LexerSkipReset(st, c)
        s2 == IF s1.skip_until_next_line THEN s1
              ELSE IF c = "<" THEN LexerOpenAngle(s1)
              ELSE IF c = ">" THEN LexerCloseAngle(s1)
              ELSE IF c = "/" /\ s1.current_term.tag # "Text" THEN LexerSlash(s1)
              ELSE IF c = "?" THEN [s1 EXCEPT !.skip_until_next_line = TRUE]
              ELSE LexerOther(s1, c)
    IN IF s1.skip_until_next_line \/ s2.err # "" THEN s2
       ELSE [s2 EXCEPT !.previous_char = c]

RECURSIVE LexerLoop(_, _)
LexerLoop(st, s) ==
    IF s = <<>> \/ st.err # "" THEN st
    ELSE LexerLoop(LexerStep(st, Head(s)), Tail(s))

Ok(v) == [ok |-> TRUE, val |-> v, err |-> <<>>]
Err(e) == [ok |-> FALSE, val |-> <<>>, err |-> e]

LexerResult(st) == IF st.err = "" THEN Ok(st.terms) ELSE Err(st.err)

lexer(file_contents) == LexerResult(LexerLoop(LexerInit, file_contents))

(***************************************************************************)
(* XMLNode and the tree arena.                                             *)
(***************************************************************************)
StrRoot == <<"r", "o", "o", "t">>
StrRoot2 == <<"r", "o", "o", "t", "2">>
StrElement == <<"e", "l", "e", "m", "e", "n", "t">>

XMLNode_new(name, parent) ==
    [name |-> name, data |-> <<>>, parent |-> parent, children |-> <<>>]

RECURSIVE get_path_SkipRoot(_, _)
get_path_SkipRoot(nodes, n) ==
    IF nodes[n].parent = 0 THEN <<>>
    ELSE Append(get_path_SkipRoot(nodes, nodes[n].parent), nodes[n].name)

RECURSIVE get_path(_, _)
get_path(nodes, n) ==
    LET temp == IF nodes[n].parent # 0 THEN get_path(nodes, nodes[n].parent) ELSE <<>>
    IN Append(temp, nodes[n].name)

(***************************************************************************)
(* parser: the state of its loop and one iteration of the loop.            *)
(* Stack::top panics on an empty vector.                                   *)
(***************************************************************************)
MsgClosingFound == <<"U", "n", "e", "x", "p", "e", "c", "t", "e", "d", " ", "c", "l", "o", "s", "i", "n", "g", " ", "t", "a", "g", ".", " ", "F", "o", "u", "n", "d", ":", " ">>
MsgClosingExpected == <<",", " ", "E", "x", "p", "e", "c", "t", "e", "d", ":", " ">>

ParserInit ==
    [nodes |-> <<XMLNode_new(StrRoot, 0)>>, node_stack |-> <<1>>,
     err |-> <<>>, panicked |-> FALSE]

top(stack) == stack[Len(stack)]

ParserOpeningTag(ps, s) ==
    LET new_node == Len(ps.nodes) + 1
        t == top(ps.node_stack)
    IN [ps EXCEPT !.nodes = Append([ps.nodes EXCEPT ![t].children = Append(@, new_node)],
                                   XMLNode_new(s, t)),
                  !.node_stack = Append(ps.node_stack, new_node)]

ParserClosingTag(ps, s) ==
    LET expected_name == ps.nodes[top(ps.node_stack)].name
    IN IF s = expected_name
       THEN [ps EXCEPT !.node_stack = Pop(ps.node_stack)]
       ELSE [ps EXCEPT !.err = MsgClosingFound \o s \o MsgClosingExpected \o expected_name]

ParserText(ps, s) ==
    [ps EXCEPT !.nodes[top(ps.node_stack)].data = @ \o s]

ParserStep(ps, term) ==
    IF term.tag = "None" THEN ps
    ELSE IF ps.node_stack = <<>> THEN [ps EXCEPT !.panicked = TRUE]
    ELSE IF term.tag = "OpeningTag" THEN ParserOpeningTag(ps, term.s)
    ELSE IF term.tag = "ClosingTag" THEN ParserClosingTag(ps, term.s)
    ELSE ParserText(ps, term.s)

RECURSIVE ParserLoop(_, _)
ParserLoop(ps, terms) ==
    IF terms = <<>> \/ ps.err # <<>> \/ ps.panicked THEN ps
    ELSE ParserLoop(ParserStep(ps, Head(terms)), Tail(terms))

ParserResult(ps) == IF ps.err = <<>> THEN Ok(ps.nodes) ELSE Err(ps.err)

(***************************************************************************)
(* recursive_csv_format and csv_formatter.  The keymap is a function from  *)
(* paths to value vectors; key_order is the iteration order of the         *)
(* HashMap, which the formatter uses for the header and for every row.     *)
(***************************************************************************)
Resize(vec, n, fill) ==
    IF Len(vec) >= n THEN SubSeq(vec, 1, n)
    ELSE vec \o [i \in 1..(n - Len(vec)) |-> fill]

CsvLeaf_LocalName(nodes, n, acc) ==
    IF Len(nodes[n].data) > 0 /\ Len(nodes[n].name) > 0
    THEN LET path == nodes[n].name
             ensured == IF path \in DOMAIN acc.keymap THEN acc.keymap
                        ELSE acc.keymap @@ (path :> <<>>)
             resized == [ensured EXCEPT ![path] = Resize(@, acc.index, <<>>)]
         IN [acc EXCEPT !.keymap = [resized EXCEPT ![path] = Append(@, nodes[n].data)]]
    ELSE acc

CsvLeaf(nodes, n, acc) ==
    IF Len(nodes[n].data) > 0 /\ Len(nodes[n].name) > 0
    THEN LET path == Join(get_path(nodes, n), <<"/">>)
             ensured == IF path \in DOMAIN acc.keymap THEN acc.keymap
                        ELSE acc.keymap @@ (path :> <<>>)
             resized == [ensured EXCEPT ![path] = Resize(@, acc.index, <<>>)]
         IN [acc EXCEPT !.keymap = [resized EXCEPT ![path] = Append(@, nodes[n].data)]]
    ELSE acc

RECURSIVE recursive_csv_format(_, _, _)
RECURSIVE CsvChildren(_, _, _)
recursive_csv_format(nodes, n, acc) ==
    IF Len(nodes[n].children) = 0 THEN CsvLeaf(nodes, n, acc)
    ELSE LET walked == CsvChildren(nodes, nodes[n].children, acc)
         IN [walked EXCEPT !.index = @ + 1]

CsvChildren(nodes, kids, acc) ==
    IF kids = <<>> THEN acc
    ELSE CsvChildren(nodes, Tail(kids), recursive_csv_format(nodes, Head(kids), acc))

CsvWalk(nodes) ==
    recursive_csv_format(nodes, 1, [keymap |-> <<>>, index |-> 0])

Last(s) == s[Len(s)]

RECURSIVE CsvTitles(_, _)
CsvTitles(key_order, csv_string) ==
    IF key_order = <<>> THEN csv_string
    ELSE CsvTitles(Tail(key_order),
                   csv_string \o Last(Split(Head(key_order), "/")) \o <<",">>)

RECURSIVE CsvRowCells(_, _, _, _)
CsvRowCells(keymap, key_order, row, csv_string) ==
    IF key_order = <<>> THEN csv_string
    ELSE LET vec == keymap[Head(key_order)]
         IN CsvRowCells(keymap, Tail(key_order), row,
                        IF Len(vec) >= row + 1
                        THEN csv_string \o vec[row + 1] \o <<",">>
                        ELSE csv_string)

RECURSIVE CsvRows(_, _, _, _, _)

CsvRows_NoPop(keymap, key_order, row, index, csv_string) ==
    IF row >= index THEN csv_string
    ELSE CsvRows(keymap, key_order, row + 1, index,
                 Append(CsvRowCells(keymap, key_order, row, csv_string), "\n"))

CsvRows(keymap, key_order, row, index, csv_string) ==
    IF row >= index THEN csv_string
    ELSE CsvRows(keymap, key_order, row + 1, index,
                 Append(Pop(CsvRowCells(keymap, key_order, row, csv_string)), "\n"))

csv_formatter(nodes, key_order) ==
    LET walk == CsvWalk(nodes)
        titles == Append(Pop(CsvTitles(key_order, <<>>)), "\n")
    IN CsvRows(walk.keymap, key_order, 0, walk.index, titles)

RECURSIVE Orders(_)
Orders(S) ==
    IF S = {} THEN {<<>>}
    ELSE UNION {{<<k>> \o o : o \in Orders(S \ {k})} : k \in S}

KeyOrders(nodes) == Orders(DOMAIN CsvWalk(nodes).keymap)

(***************************************************************************)
(* csv_parser.  A row's element node is created before its keys are        *)
(* examined and joins root2's children after them; every node of a failed  *)
(* call is dropped with the Err.                                           *)
(***************************************************************************)
MsgNoEntries == <<"N", "o", " ", "e", "n", "t", "r", "i", "e", "s", " ", "i", "n", " ", "C", "S", "V", " ", "f", "i", "l", "e">>
MsgExpectedKey == <<"E", "x", "p", "e", "c", "t", "e", "d", " ", "k", "e", "y", " ">>
MsgForRow == <<" ", "f", "o", "r", " ", "r", "o", "w", " ">>

CsvParserInit_RootWithoutChild ==
    <<XMLNode_new(StrRoot, 0), XMLNode_new(StrRoot2, 1)>>

CsvParserInit ==
    <<[XMLNode_new(StrRoot, 0) EXCEPT !.children = <<2>>], XMLNode_new(StrRoot2, 1)>>

CsvFileLines_NoTrim(file_contents) == Split(file_contents, "\n")

CsvFileLines(file_contents) == Split(Trim(file_contents), "\n")

CsvLineEntries(lines) == [i \in 1..Len(lines) |-> Split(lines[i], ",")]

RECURSIVE CsvRowKeys(_, _, _, _, _)

CsvRowKeys_OneBased(st, keymap, row, new_node, key_index) ==
    IF key_index >= Len(keymap) THEN st
    ELSE IF Len(row) <= key_index THEN [st EXCEPT !.err_key = key_index + 1]
    ELSE LET new_sub_node == Len(st.nodes) + 1
             sub == [XMLNode_new(keymap[key_index + 1], 2) EXCEPT !.data = row[key_index + 1]]
         IN CsvRowKeys([st EXCEPT !.nodes = Append([st.nodes EXCEPT ![new_node].children =
                                                        Append(@, new_sub_node)], sub)],
                       keymap, row, new_node, key_index + 1)

CsvRowKeys(st, keymap, row, new_node, key_index) ==
    IF key_index >= Len(keymap) THEN st
    ELSE IF Len(row) <= key_index THEN [st EXCEPT !.err_key = key_index]
    ELSE LET new_sub_node == Len(st.nodes) + 1
             sub == [XMLNode_new(keymap[key_index + 1], 2) EXCEPT !.data = row[key_index + 1]]
         IN CsvRowKeys([st EXCEPT !.nodes = Append([st.nodes EXCEPT ![new_node].children =
                                                        Append(@, new_sub_node)], sub)],
                       keymap, row, new_node, key_index + 1)

RECURSIVE CsvRowsToTree(_, _, _, _)

CsvRowsToTree_DropLast(st, keymap, rows, row_index) ==
    IF row_index >= Len(rows) - 1 THEN Ok(st.nodes)
    ELSE LET new_node == Len(st.nodes) + 1
             made == [st EXCEPT !.nodes = Append(st.nodes, XMLNode_new(StrElement, 2))]
             keyed == CsvRowKeys(made, keymap, rows[row_index + 1], new_node, 0)
         IN IF keyed.err_key >= 0
            THEN Err(MsgExpectedKey \o ToDecimal(keyed.err_key)
                     \o MsgForRow \o ToDecimal(row_index))
            ELSE CsvRowsToTree([keyed EXCEPT !.nodes[2].children = Append(@, new_node)],
                               keymap, rows, row_index + 1)

CsvRowsToTree(st, keymap, rows, row_index) ==
    IF row_index >= Len(rows) THEN Ok(st.nodes)
    ELSE LET new_node == Len(st.nodes) + 1
             made == [st EXCEPT !.nodes = Append(st.nodes, XMLNode_new(StrElement, 2))]
             keyed == CsvRowKeys(made, keymap, rows[row_index + 1], new_node, 0)
         IN IF keyed.err_key >= 0
            THEN Err(MsgExpectedKey \o ToDecimal(keyed.err_key)
                     \o MsgForRow \o ToDecimal(row_index))
            ELSE CsvRowsToTree([keyed EXCEPT !.nodes[2].children = Append(@, new_node)],
                               keymap, rows, row_index + 1)

csv_parser(file_contents) ==
    LET file_lines == CsvFileLines(file_contents)
        entries == CsvLineEntries(file_lines)
    IN IF Len(file_lines) <= 1 THEN Err(MsgNoEntries)
       ELSE CsvRowsToTree([nodes |-> CsvParserInit, err_key |-> -1],
                          Head(entries), Tail(entries), 0)

(***************************************************************************)
(* recursive_xml_reverse_parse, xml_reverse_parser and xml_formatter.      *)
(***************************************************************************)
XmlDeclaration == <<"<", "?", "x", "m", "l", " ", "v", "e", "r", "s", "i", "o", "n", "=", "\"", "1", ".", "0", "\"", "?", ">", "\n">>

RECURSIVE recursive_xml_reverse_parse(_, _, _, _)
RECURSIVE ReverseChildren(_, _, _, _)
recursive_xml_reverse_parse(nodes, n, terms, depth) ==
    LET node == nodes[n]
        t1 == Append(terms, Text(Repeat(<<" ", " ">>, depth)))
        t2 == Append(t1, OpeningTag(node.name))
        t3 == IF Len(node.data) > 0 THEN Append(t2, Text(node.data)) ELSE t2
        t4 == IF Len(node.children) > 0 THEN Append(t3, Text(<<"\n">>)) ELSE t3
        t5 == ReverseChildren(nodes, node.children, t4, depth + 1)
        t6 == IF Len(node.children) > 0
              THEN Append(t5, Text(Repeat(<<" ", " ">>, depth))) ELSE t5
        t7 == Append(t6, ClosingTag(node.name))
    IN Append(t7, Text(<<"\n">>))

ReverseChildren(nodes, kids, terms, depth) ==
    IF kids = <<>> THEN terms
    ELSE ReverseChildren(nodes, Tail(kids),
                         recursive_xml_reverse_parse(nodes, Head(kids), terms, depth), depth)

XmlReversePanics(nodes) == Len(nodes[1].children) = 0

xml_reverse_parser_AllChildren(nodes) ==
    ReverseChildren(nodes, nodes[1].children, <<>>, 0)

xml_reverse_parser(nodes) ==
    recursive_xml_reverse_parse(nodes, nodes[1].children[1], <<>>, 0)

XmlRender_NoSlash(term) ==
    IF term.tag \in {"OpeningTag", "ClosingTag"} THEN <<"<">> \o term.s \o <<">">>
    ELSE IF term.tag = "Text" THEN term.s
    ELSE <<>>

XmlRender(term) ==
    IF term.tag = "OpeningTag" THEN <<"<">> \o term.s \o <<">">>
    ELSE IF term.tag = "ClosingTag" THEN <<"<", "/">> \o term.s \o <<">">>
    ELSE IF term.tag = "Text" THEN term.s
    ELSE <<>>

RECURSIVE XmlRenderAll(_, _)
XmlRenderAll(terms, xml_string) ==
    IF terms = <<>> THEN xml_string
    ELSE XmlRenderAll(Tail(terms), xml_string \o XmlRender(Head(terms)))

xml_formatter(terms) == XmlRenderAll(terms, XmlDeclaration)

(***************************************************************************)
(* Input documents.  A markup document is described by a sequence of       *)
(* items (a tag, a text run, or one raw character); the file holds its     *)
(* rendering.                                                              *)
(***************************************************************************)
Open(n) == [kind |-> "open", s |-> n]
Close(n) == [kind |-> "close", s |-> n]
Run(t) == [kind |-> "text", s |-> t]
Raw(c) == [kind |-> "raw", s |-> <<c>>]

RenderItem(item) ==
    IF item.kind = "open" THEN <<"<">> \o item.s \o <<">">>
    ELSE IF item.kind = "close" THEN <<"<", "/">> \o item.s \o <<">">>
    ELSE item.s

RECURSIVE RenderDoc(_)
RenderDoc(items) ==
    IF items = <<>> THEN <<>> ELSE RenderItem(Head(items)) \o RenderDoc(Tail(items))

SeqsUpTo(S, n) == UNION {[1..k -> S] : k \in 0..n}

RawAlphabet == {"<", ">", "/", "?", "a", "\n"}

RawDocs == {[i \in 1..Len(s) |-> Raw(s[i])] : s \in SeqsUpTo(RawAlphabet, MaxRawLen)}

ItemSet ==
    {Open(<<"a">>), Open(<<"b", " ">>), Open(<<" ">>),
     Close(<<"a">>), Close(<<" ", "b">>), Close(StrRoot),
     Run(<<"x">>), Run(<<" ", "y", "/", "\n">>), Run(<<"\n", " ">>), Run(<<" ", "/">>)}

ItemDocs == SeqsUpTo(ItemSet, MaxItems)

ExampleHi == <<Open(<<"a">>), Run(<<"h", "i">>), Close(<<"a">>)>>
ExampleMismatch == <<Open(<<"a">>), Close(<<"b">>)>>
ExampleNested ==
    <<Open(<<"a">>), Run(<<"x">>), Open(<<"b">>), Run(<<"y">>), Close(<<"b">>),
      Open(<<"c">>), Close(<<"c">>), Close(<<"a">>), Open(<<"d">>), Close(<<"d">>)>>
ExampleRepeated ==
    <<Open(<<"a">>), Open(<<"x">>), Run(<<"1">>), Close(<<"x">>),
      Open(<<"x">>), Run(<<"2">>), Close(<<"x">>), Close(<<"a">>)>>
ExampleMixed ==
    <<Open(<<"a">>), Open(<<"x">>), Run(<<"1">>), Close(<<"x">>),
      Open(<<"b">>), Open(<<"z">>), Run(<<"3">>), Close(<<"z">>), Close(<<"b">>),
      Open(<<"y">>), Run(<<"2">>), Close(<<"y">>), Close(<<"a">>)>>
ExampleDeclaration ==
    <<Raw("<"), Raw("?"), Raw("x"), Raw("m"), Raw("l"), Raw("?"), Raw(">"), Raw("\n")>>
    \o ExampleHi
ExampleSameName ==
    <<Open(<<"a">>), Open(<<"n">>), Run(<<"1">>), Close(<<"n">>), Close(<<"a">>),
      Open(<<"b">>), Open(<<"n">>), Run(<<"2">>), Close(<<"n">>), Close(<<"b">>),
      Open(<<"a">>), Open(<<"n">>), Run(<<"3">>), Close(<<"n">>), Close(<<"a">>)>>
ExampleDocs ==
    {ExampleHi, ExampleMismatch, ExampleNested, ExampleRepeated, ExampleMixed,
     ExampleDeclaration, ExampleSameName}

RecordValues == {<<"1">>, <<"2", ",">>}

RecordItems(x, y) ==
    <<Open(<<"a">>), Open(<<"x">>), Run(x), Close(<<"x">>),
      Open(<<"y">>), Run(y), Close(<<"y">>), Close(<<"a">>)>>

RECURSIVE RecordDoc(_)
RecordDoc(vals) ==
    IF vals = <<>> THEN <<>>
    ELSE RecordItems(Head(vals)[1], Head(vals)[2]) \o RecordDoc(Tail(vals))

RecordDocs ==
    {RecordDoc(vals) : vals \in UNION {[1..n -> RecordValues \X RecordValues] : n \in 1..MaxRecords}}

CsvAlphabet == {"a", ",", "\n", " "}

RawCsvFiles == SeqsUpTo(CsvAlphabet, MaxCsvLen)

CsvHeaders == {<<<<"n">>>>, <<<<"n">>, <<"g">>>>}
CsvFields == {<<"A">>, <<>>}

ExampleCsv == <<"n", "a", "m", "e", ",", "a", "g", "e", "\n", "A", "l", "i", "c", "e", ",", "3", "0", "\n", "B", "o", "b", ",", "2", "5">>
ExampleCsvHeaderOnly == <<"n", "a", "m", "e", ",", "a", "g", "e">>
CsvExamples == {ExampleCsv, ExampleCsvHeaderOnly}

CsvTable(header, rows) ==
    Join([i \in 1..(Len(rows) + 1) |->
             Join(IF i = 1 THEN header ELSE rows[i - 1], <<",">>)], <<"\n">>)

CsvTableFiles ==
    {CsvTable(header, rows) :
        header \in CsvHeaders,
        rows \in UNION {[1..n -> UNION {[1..k -> CsvFields] : k \in 1..3}] : n \in 1..MaxRecords}}

TableHeaders == {<<<<"n">>>>, <<<<"n">>, <<"g">>>>, <<<<"r", "o", "o", "t">>, <<"n">>>>}
TableValues == {<<"A">>, <<"b", " ", "c">>}

TableFiles ==
    {CsvTable(header, rows) :
        header \in TableHeaders,
        rows \in UNION {[1..n -> UNION {[1..k -> TableValues] : k \in 1..2}] : n \in 1..MaxRecords}}

ExampleCsvSameTitle == <<"n", ",", "n", "\n", "A", ",", "B">>
ExampleCsvSlash == <<"n", "\n", "/", "A">>
ExampleCsvSpaced == <<"n", ",", "g", "\n", " ", "A", ",", "B", " ", "\n">>
TableExamples == {ExampleCsv, ExampleCsvSameTitle, ExampleCsvSlash, ExampleCsvSpaced}

(***************************************************************************)
(* The state of a conversion.                                              *)
(***************************************************************************)
VARIABLES
    mode,           \* the entry point running: xml_to_csv, csv_to_xml, or the round trip
    doc,            \* the items the markup input was rendered from
    input_file,     \* the contents of the file at the input path
    pc,             \* the stage the entry point is at
    file_contents,  \* the String read from the input file
    lx,             \* lexer: terms, current_term, previous_char, skip_until_next_line
    lex_pos,        \* lexer: the number of characters consumed
    lexer_result,   \* the Result lexer returned
    ps,             \* parser: the arena of nodes, node_stack
    parse_pos,      \* parser: the number of terms consumed
    parser_result,  \* the Result parser or csv_parser returned
    key_order,      \* the iteration order of csv_formatter's keymap
    terms_out,      \* the terms xml_reverse_parser returned
    output_text,    \* csv_result or xml_formatted
    out_file,       \* the file at the output path
    panic,          \* the stage that panicked, or ""
    rt_result       \* round trip: the tree read back from output_text

vars == <<mode, doc, input_file, pc, file_contents, lx, lex_pos, lexer_result, ps,
          parse_pos, parser_result, key_order, terms_out, output_text, out_file,
          panic, rt_result>>

Unset == [ok |-> FALSE, val |-> <<>>, err |-> <<>>]

InitLocals ==
    /\ pc = "open"
    /\ file_contents = <<>>
    /\ lx = LexerInit
    /\ lex_pos = 0
    /\ lexer_result = Unset
    /\ ps = ParserInit
    /\ parse_pos = 0
    /\ parser_result = Unset
    /\ key_order = <<>>
    /\ terms_out = <<>>
    /\ output_text = <<>>
    /\ out_file = [created |-> FALSE, bytes |-> <<>>]
    /\ panic = ""
    /\ rt_result = Unset

InitXmlToCsv ==
    /\ mode = "xml_to_csv"
    /\ doc \in RawDocs \cup ItemDocs \cup RecordDocs \cup ExampleDocs
    /\ input_file = RenderDoc(doc)
    /\ InitLocals

InitCsvToXml ==
    /\ mode = "csv_to_xml"
    /\ doc = <<>>
    /\ input_file \in RawCsvFiles \cup CsvTableFiles \cup CsvExamples
    /\ InitLocals

InitRoundTrip ==
    /\ mode = "round_trip"
    /\ doc \in ItemDocs \cup ExampleDocs
    /\ input_file = RenderDoc(doc)
    /\ InitLocals

InitTableRoundTrip ==
    /\ mode = "csv_to_xml"
    /\ doc = <<>>
    /\ input_file \in TableFiles \cup TableExamples
    /\ InitLocals

Init == InitXmlToCsv \/ InitCsvToXml

(***************************************************************************)
(* Reading the input file: File::open and read_to_string, which panic on   *)
(* failure.                                                                *)
(***************************************************************************)
OpenFail ==
    /\ pc = "open"
    /\ pc' = "panicked"
    /\ panic' = "open"
    /\ UNCHANGED <<mode, doc, input_file, file_contents, lx, lex_pos, lexer_result, ps,
                   parse_pos, parser_result, key_order, terms_out, output_text,
                   out_file, rt_result>>

OpenRead ==
    /\ pc = "open"
    /\ file_contents' = input_file
    /\ pc' = IF mode = "csv_to_xml" THEN "csv_parser" ELSE "lexer"
    /\ UNCHANGED <<mode, doc, input_file, lx, lex_pos, lexer_result, ps, parse_pos,
                   parser_result, key_order, terms_out, output_text, out_file, panic,
                   rt_result>>

(***************************************************************************)
(* lexer, one character at a time, and the match on its Result.            *)
(***************************************************************************)
LexerDone == lx.err # "" \/ lex_pos = Len(file_contents)

LexChar ==
    /\ pc = "lexer"
    /\ ~LexerDone
    /\ lx' = LexerStep(lx, file_contents[lex_pos + 1])
    /\ lex_pos' = lex_pos + 1
    /\ UNCHANGED <<mode, doc, input_file, pc, file_contents, lexer_result, ps, parse_pos,
                   parser_result, key_order, terms_out, output_text, out_file, panic,
                   rt_result>>

LexerReturn_IgnoreErr ==
    /\ pc = "lexer"
    /\ LexerDone
    /\ lexer_result' = LexerResult(lx)
    /\ pc' = "parser"
    /\ UNCHANGED <<mode, doc, input_file, file_contents, lx, lex_pos, ps, parse_pos,
                   parser_result, key_order, terms_out, output_text, out_file, rt_result,
                   panic>>

LexerReturn ==
    /\ pc = "lexer"
    /\ LexerDone
    /\ lexer_result' = LexerResult(lx)
    /\ pc' = IF lx.err = "" THEN "parser" ELSE "panicked"
    /\ panic' = IF lx.err = "" THEN panic ELSE "lexer"
    /\ UNCHANGED <<mode, doc, input_file, file_contents, lx, lex_pos, ps, parse_pos,
                   parser_result, key_order, terms_out, output_text, out_file, rt_result>>

(***************************************************************************)
(* parser, one term at a time, and the match on its Result.                *)
(***************************************************************************)
ParserDone ==
    ps.err # <<>> \/ ps.panicked \/ parse_pos = Len(lexer_result.val)

ParseTerm ==
    /\ pc = "parser"
    /\ ~ParserDone
    /\ ps' = ParserStep(ps, lexer_result.val[parse_pos + 1])
    /\ parse_pos' = parse_pos + 1
    /\ UNCHANGED <<mode, doc, input_file, pc, file_contents, lx, lex_pos, lexer_result,
                   parser_result, key_order, terms_out, output_text, out_file, panic,
                   rt_result>>

ParserReturn ==
    /\ pc = "parser"
    /\ ParserDone
    /\ parser_result' = IF ps.panicked THEN parser_result ELSE ParserResult(ps)
    /\ pc' = IF ps.panicked \/ ps.err # <<>> THEN "panicked"
             ELSE IF mode = "xml_to_csv" THEN "csv_formatter"
             ELSE "xml_reverse_parser"
    /\ panic' = IF ps.panicked THEN "top" ELSE IF ps.err # <<>> THEN "parser" ELSE panic
    /\ UNCHANGED <<mode, doc, input_file, file_contents, lx, lex_pos, lexer_result, ps,
                   parse_pos, key_order, terms_out, output_text, out_file, rt_result>>

(***************************************************************************)
(* The later stages of xml_to_csv and csv_to_xml.                          *)
(***************************************************************************)
CsvFormat ==
    /\ pc = "csv_formatter"
    /\ \E order \in KeyOrders(parser_result.val) :
          /\ key_order' = order
          /\ output_text' = csv_formatter(parser_result.val, order)
    /\ pc' = "create"
    /\ UNCHANGED <<mode, doc, input_file, file_contents, lx, lex_pos, lexer_result, ps,
                   parse_pos, parser_result, terms_out, out_file, panic, rt_result>>

CsvParse ==
    /\ pc = "csv_parser"
    /\ parser_result' = csv_parser(file_contents)
    /\ pc' = IF parser_result'.ok THEN "xml_reverse_parser" ELSE "panicked"
    /\ panic' = IF parser_result'.ok THEN panic ELSE "csv_parser"
    /\ UNCHANGED <<mode, doc, input_file, file_contents, lx, lex_pos, lexer_result, ps,
                   parse_pos, key_order, terms_out, output_text, out_file, rt_result>>

XmlReverseParse ==
    /\ pc = "xml_reverse_parser"
    /\ terms_out' = IF XmlReversePanics(parser_result.val) THEN terms_out
                    ELSE xml_reverse_parser(parser_result.val)
    /\ pc' = IF XmlReversePanics(parser_result.val) THEN "panicked" ELSE "xml_formatter"
    /\ panic' = IF XmlReversePanics(parser_result.val) THEN "xml_reverse_parser" ELSE panic
    /\ UNCHANGED <<mode, doc, input_file, file_contents, lx, lex_pos, lexer_result, ps,
                   parse_pos, parser_result, key_order, output_text, out_file, rt_result>>

XmlFormat ==
    /\ pc = "xml_formatter"
    /\ output_text' = xml_formatter(terms_out)
    /\ pc' = IF mode = "round_trip" THEN "read_back" ELSE "create"
    /\ UNCHANGED <<mode, doc, input_file, file_contents, lx, lex_pos, lexer_result, ps,
                   parse_pos, parser_result, key_order, terms_out, out_file, panic,
                   rt_result>>

(***************************************************************************)
(* Writing the output file: File::create, then write.  A failure of either *)
(* is reported by a message and the entry point returns.                   *)
(***************************************************************************)
CreateFail ==
    /\ pc = "create"
    /\ pc' = "done"
    /\ UNCHANGED <<mode, doc, input_file, file_contents, lx, lex_pos, lexer_result, ps,
                   parse_pos, parser_result, key_order, terms_out, output_text, out_file,
                   panic, rt_result>>

Create ==
    /\ pc = "create"
    /\ out_file' = [created |-> TRUE, bytes |-> <<>>]
    /\ pc' = "write"
    /\ UNCHANGED <<mode, doc, input_file, file_contents, lx, lex_pos, lexer_result, ps,
                   parse_pos, parser_result, key_order, terms_out, output_text, panic,
                   rt_result>>

WriteFail ==
    /\ pc = "write"
    /\ pc' = "done"
    /\ UNCHANGED <<mode, doc, input_file, file_contents, lx, lex_pos, lexer_result, ps,
                   parse_pos, parser_result, key_order, terms_out, output_text, out_file,
                   panic, rt_result>>

Write ==
    /\ pc = "write"
    /\ out_file' = [out_file EXCEPT !.bytes = output_text]
    /\ pc' = "done"
    /\ UNCHANGED <<mode, doc, input_file, file_contents, lx, lex_pos, lexer_result, ps,
                   parse_pos, parser_result, key_order, terms_out, output_text, panic,
                   rt_result>>

(***************************************************************************)
(* The round trip reads the rendered markup back with lexer and parser.    *)
(***************************************************************************)
parser(terms) ==
    LET final == ParserLoop(ParserInit, terms)
    IN IF final.panicked THEN Unset ELSE ParserResult(final)

ReadBack ==
    /\ pc = "read_back"
    /\ rt_result' = LET lexed == lexer(output_text)
                    IN IF lexed.ok THEN parser(lexed.val) ELSE Unset
    /\ pc' = "done"
    /\ UNCHANGED <<mode, doc, input_file, file_contents, lx, lex_pos, lexer_result, ps,
                   parse_pos, parser_result, key_order, terms_out, output_text, out_file,
                   panic>>

(***************************************************************************)
(* The table round trip: xml_to_csv opens and reads the file that          *)
(* csv_to_xml has written, and runs on it.                                 *)
(***************************************************************************)
Reopen ==
    /\ pc = "done"
    /\ mode = "csv_to_xml"
    /\ out_file.created
    /\ mode' = "xml_to_csv"
    /\ file_contents' = out_file.bytes
    /\ pc' = "lexer"
    /\ parser_result' = Unset
    /\ terms_out' = <<>>
    /\ output_text' = <<>>
    /\ out_file' = [created |-> FALSE, bytes |-> <<>>]
    /\ UNCHANGED <<doc, input_file, lx, lex_pos, lexer_result, ps, parse_pos, key_order,
                   panic, rt_result>>

NextXmlToCsv ==
    \/ OpenFail \/ OpenRead \/ LexChar \/ LexerReturn \/ ParseTerm \/ ParserReturn
    \/ CsvFormat \/ CreateFail \/ Create \/ WriteFail \/ Write

NextCsvToXml ==
    \/ OpenFail \/ OpenRead \/ CsvParse \/ XmlReverseParse \/ XmlFormat
    \/ CreateFail \/ Create \/ WriteFail \/ Write

NextRoundTrip ==
    \/ OpenFail \/ OpenRead \/ LexChar \/ LexerReturn \/ ParseTerm \/ ParserReturn
    \/ XmlReverseParse \/ XmlFormat \/ ReadBack

NextTableRoundTrip ==
    \/ OpenFail \/ OpenRead \/ CsvParse \/ XmlReverseParse \/ XmlFormat
    \/ CreateFail \/ Create \/ WriteFail \/ Write \/ Reopen
    \/ LexChar \/ LexerReturn \/ ParseTerm \/ ParserReturn \/ CsvFormat

Next ==
    \/ OpenFail \/ OpenRead \/ LexChar \/ LexerReturn \/ ParseTerm \/ ParserReturn
    \/ CsvFormat \/ CsvParse \/ XmlReverseParse \/ XmlFormat
    \/ CreateFail \/ Create \/ WriteFail \/ Write

Spec == Init /\ [][Next]_vars
SpecXmlToCsv == InitXmlToCsv /\ [][NextXmlToCsv]_vars
SpecCsvToXml == InitCsvToXml /\ [][NextCsvToXml]_vars
SpecRoundTrip == InitRoundTrip /\ [][NextRoundTrip]_vars
SpecTableRoundTrip == InitTableRoundTrip /\ [][NextTableRoundTrip]_vars

(***************************************************************************)
(* Vocabulary of the properties.                                           *)
(***************************************************************************)
IsTag(item) == item.kind \in {"open", "close"}

Markup == {"<", ">", "/", "?"}

NoneOf(s, chars) == \A i \in 1..Len(s) : s[i] \notin chars

IsBlank(s) == \A i \in 1..Len(s) : s[i] \in Whitespace

\* s without its leading and trailing whitespace
Stripped(s) ==
    IF IsBlank(s) THEN <<>>
    ELSE LET solid == {i \in 1..Len(s) : s[i] \notin Whitespace}
             first == CHOOSE i \in solid : \A j \in solid : i <= j
             last == CHOOSE i \in solid : \A j \in solid : j <= i
         IN [k \in 1..(last - first + 1) |-> s[first + k - 1]]

\* adjacent text items are one text run
RECURSIVE MergeRuns(_)
MergeRuns(items) ==
    IF Len(items) < 2 THEN items
    ELSE IF items[1].kind = "text" /\ items[2].kind = "text"
         THEN MergeRuns(<<Run(items[1].s \o items[2].s)>> \o SubSeq(items, 3, Len(items)))
         ELSE <<items[1]>> \o MergeRuns(Tail(items))

WellFormedDoc(items) ==
    LET m == MergeRuns(items)
    IN \A i \in 1..Len(m) :
          \/ IsTag(m[i]) /\ NoneOf(m[i].s, Markup)
          \/ /\ m[i].kind = "text"
             /\ m[i].s # <<>>
             /\ NoneOf(m[i].s, {"<", ">", "?"})
             /\ m[i].s[1] # "/"
             /\ i < Len(m)
             /\ IsTag(m[i + 1])

TermOf(item) ==
    [tag |-> IF item.kind = "open" THEN "OpeningTag"
             ELSE IF item.kind = "close" THEN "ClosingTag" ELSE "Text",
     s |-> Stripped(item.s)]

RECURSIVE TermsOf(_)
TermsOf(items) ==
    IF items = <<>> THEN <<>>
    ELSE IF IsBlank(Head(items).s) THEN TermsOf(Tail(items))
    ELSE <<TermOf(Head(items))>> \o TermsOf(Tail(items))

LexerReturned == mode # "csv_to_xml" /\ pc \notin {"open", "lexer"} /\ panic # "open"

\* C1: on a document of well-terminated tags and text runs, lexer returns Ok
\* with one term per tag of non-blank name and per non-blank text run, in
\* document order, each carrying its trimmed content.
C1_LexerTerms ==
    LexerReturned /\ WellFormedDoc(doc) =>
        lexer_result = Ok(TermsOf(MergeRuns(doc)))

C1_Witness ==
    /\ LexerReturned
    /\ doc = ExampleHi
    /\ lexer_result.val = <<OpeningTag(<<"a">>), Text(<<"h", "i">>), ClosingTag(<<"a">>)>>

Contains(s, sub) ==
    \E i \in 0..(Len(s) - Len(sub)) : SubSeq(s, i + 1, i + Len(sub)) = sub

ParserEntered == mode # "csv_to_xml" /\ pc \notin {"open", "lexer"} /\ panic \notin {"open", "lexer"}

ParserReturned == ParserEntered /\ pc # "parser"

\* the parser's state before the term it consumed last
ParserBefore == ParserLoop(ParserInit, SubSeq(lexer_result.val, 1, parse_pos - 1))

TopName(state) == state.nodes[top(state.node_stack)].name

Mismatch(state, term) ==
    /\ term.tag = "ClosingTag"
    /\ state.node_stack # <<>>
    /\ term.s # TopName(state)

\* C2: parser fails if and only if it meets a ClosingTag whose name differs
\* from the name of the node on top of the stack; the message then holds the
\* found and the expected name, no tree is returned and no tag is closed
\* implicitly; in every other case parser returns Ok with the tree.
C2_ParserFailsOnlyOnMismatch ==
    /\ ParserEntered /\ parse_pos > 0 =>
          LET term == lexer_result.val[parse_pos]
          IN /\ (ps.err # <<>> \/ ps.panicked) <=> Mismatch(ParserBefore, term)
             /\ ps.err # <<>> =>
                   /\ Contains(ps.err, term.s)
                   /\ Contains(ps.err, TopName(ParserBefore))
                   /\ ps.node_stack = ParserBefore.node_stack
    /\ ParserReturned =>
          IF ps.err # <<>> THEN ~parser_result.ok /\ parser_result.val = <<>>
          ELSE panic = "" /\ parser_result = Ok(ps.nodes)

SingleTopLevel(nodes) == Len(nodes[1].children) = 1

RoundTripDone == mode = "round_trip" /\ pc = "done"

\* C3 as stated: for an accepted markup input with a single top-level
\* element, reading the serialized tree back with lexer and parser succeeds
\* and yields the same names, nesting, child order and data on every node.
C3_RoundTripSameTree ==
    RoundTripDone /\ SingleTopLevel(parser_result.val) =>
        rt_result = Ok(parser_result.val)

\* Reading back fails or differs only through data the serializer cannot
\* carry: the root's data, or data that starts with '/'.
RoundTripApartFromSlashAndRootText ==
    /\ RoundTripDone
    /\ SingleTopLevel(parser_result.val)
    /\ \A n \in 2..Len(parser_result.val) :
          parser_result.val[n].data = <<>> \/ parser_result.val[n].data[1] # "/"
    => rt_result = Ok([parser_result.val EXCEPT ![1].data = <<>>])

\* the pieces of s between the occurrences of sep, by position
SepAt(s, sep, k) ==
    LET seps == {i \in 1..Len(s) : s[i] = sep}
    IN IF k = 0 THEN 0
       ELSE IF k > Cardinality(seps) THEN Len(s) + 1
       ELSE CHOOSE p \in seps : Cardinality({q \in seps : q < p}) = k - 1

Pieces(s, sep) ==
    [k \in 1..(Cardinality({i \in 1..Len(s) : s[i] = sep}) + 1) |->
        [j \in 1..(SepAt(s, sep, k) - SepAt(s, sep, k - 1) - 1) |->
            s[SepAt(s, sep, k - 1) + j]]]

CsvParserReturned == mode = "csv_to_xml" /\ pc \notin {"open", "csv_parser"} /\ panic # "open"

InputLines == Pieces(Stripped(file_contents), "\n")

\* C4: when csv_parser succeeds on a header of k names and n data lines, the
\* tree is the root with the inner root as its only child, which has n
\* children named element in row order, the i-th with k leaf children in
\* column order, the j-th named by the j-th title and holding the j-th field
\* of row i; further fields are dropped.
C4_CsvTree ==
    CsvParserReturned /\ parser_result.ok =>
        LET nodes == parser_result.val
            lines == InputLines
            header == Pieces(lines[1], ",")
            k == Len(header)
            n == Len(lines) - 1
        IN /\ Len(nodes) = 2 + n * (k + 1)
           /\ nodes[1].parent = 0
           /\ Len(nodes[1].children) = 1
           /\ LET inner == nodes[nodes[1].children[1]]
              IN /\ Len(inner.children) = n
                 /\ \A i \in 1..n :
                       LET element == nodes[inner.children[i]]
                           row == Pieces(lines[i + 1], ",")
                       IN /\ element.name = StrElement
                          /\ Len(element.children) = k
                          /\ \A j \in 1..k :
                                LET leaf == nodes[element.children[j]]
                                IN /\ leaf.children = <<>>
                                   /\ leaf.name = header[j]
                                   /\ leaf.data = row[j]

C4_Witness ==
    /\ CsvParserReturned
    /\ parser_result.ok
    /\ file_contents = ExampleCsv
    /\ LET nodes == parser_result.val
       IN /\ nodes[2].children = <<3, 6>>
          /\ nodes[6].children = <<7, 8>>
          /\ nodes[7].name = <<"n", "a", "m", "e">> /\ nodes[7].data = <<"B", "o", "b">>
          /\ nodes[8].name = <<"a", "g", "e">> /\ nodes[8].data = <<"2", "5">>

Commas(line) == Cardinality({i \in 1..Len(line) : line[i] = ","})

\* the data rows, numbered from 1, with fewer fields than the header
ShortRows(lines) ==
    {i \in 1..(Len(lines) - 1) : Commas(lines[i + 1]) < Commas(lines[1])}

\* C5: if a data row has fewer fields than the header has columns,
\* csv_parser fails and returns no tree; the message names the 0-based index
\* of the first such row and the index of its first missing column, which is
\* the number of fields of that row.
C5_CsvShortRow ==
    CsvParserReturned =>
        LET lines == InputLines
            short == ShortRows(lines)
            first == CHOOSE i \in short : \A j \in short : i <= j
        IN short # {} =>
              /\ ~parser_result.ok
              /\ parser_result.val = <<>>
              /\ panic = "csv_parser"
              /\ parser_result.err =
                    MsgExpectedKey \o ToDecimal(Commas(lines[first + 1]) + 1)
                        \o MsgForRow \o ToDecimal(first - 1)

C5_Witness ==
    /\ CsvParserReturned
    /\ Len(InputLines) = 3
    /\ ShortRows(InputLines) = {2}
    /\ Commas(InputLines[1]) = 1
    /\ Contains(parser_result.err, <<"k", "e", "y", " ", "1", " ">>)
    /\ Contains(parser_result.err, <<"r", "o", "w", " ", "1">>)

\* C6: csv_parser fails with "No entries in CSV file" exactly when the
\* trimmed input has fewer than 2 lines; with 2 or more lines this error
\* never occurs.
C6_CsvNoEntries ==
    CsvParserReturned =>
        ((~parser_result.ok /\ parser_result.err = MsgNoEntries)
            <=> \A i \in 1..Len(Stripped(file_contents)) : Stripped(file_contents)[i] # "\n")

C6_Witness ==
    /\ CsvParserReturned
    /\ file_contents = <<"a", "\n", "\n", " ">>
    /\ parser_result = Err(MsgNoEntries)
    /\ pc = "panicked"

RecordsOf(items) ==
    [i \in 1..(Len(items) \div 8) |-> <<items[8 * i - 5].s, items[8 * i - 2].s>>]

IsRecordDoc(items) ==
    /\ Len(items) >= 8
    /\ Len(items) % 8 = 0
    /\ items = RecordDoc(RecordsOf(items))
    /\ \A i \in 1..(Len(items) \div 8) :
          /\ Stripped(items[8 * i - 5].s) # <<>> /\ NoneOf(items[8 * i - 5].s, {"\n"})
          /\ Stripped(items[8 * i - 2].s) # <<>> /\ NoneOf(items[8 * i - 2].s, {"\n"})

RECURSIVE DataLines(_, _, _)
DataLines(records, first, second) ==
    IF records = <<>> THEN <<>>
    ELSE Stripped(Head(records)[first]) \o <<",">> \o Stripped(Head(records)[second])
             \o <<"\n">> \o DataLines(Tail(records), first, second)

CsvFormatterReturned == mode = "xml_to_csv" /\ pc \in {"create", "write", "done"}

\* C7: for a tree parsed from N >= 1 sibling elements a, each with leaf
\* children x and y of non-empty data, csv_formatter outputs one header line
\* with the titles x and y, then exactly N data lines and nothing else, the
\* i-th holding the x and y values of the i-th a in the header's column order.
C7_CsvFormatterRecords ==
    CsvFormatterReturned /\ IsRecordDoc(doc) =>
        \/ output_text = <<"x", ",", "y", "\n">> \o DataLines(RecordsOf(doc), 1, 2)
        \/ output_text = <<"y", ",", "x", "\n">> \o DataLines(RecordsOf(doc), 2, 1)

C7_Witness ==
    /\ CsvFormatterReturned
    /\ IsRecordDoc(doc)
    /\ Len(doc) = 16
    /\ RecordsOf(doc)[1] # RecordsOf(doc)[2]
    /\ pc = "done"
    /\ out_file.bytes = <<"x", ",", "y", "\n">> \o DataLines(RecordsOf(doc), 1, 2)

Indent(depth) == [i \in 1..(2 * depth) |-> " "]

RECURSIVE Flatten(_)
Flatten(seqs) == IF seqs = <<>> THEN <<>> ELSE Head(seqs) \o Flatten(Tail(seqs))

RECURSIVE NodeTerms(_, _, _)
NodeTerms(nodes, n, d) ==
    <<Text(Indent(d)), OpeningTag(nodes[n].name)>>
    \o (IF nodes[n].data # <<>> THEN <<Text(nodes[n].data)>> ELSE <<>>)
    \o (IF nodes[n].children # <<>>
        THEN <<Text(<<"\n">>)>>
             \o Flatten([i \in 1..Len(nodes[n].children) |->
                            NodeTerms(nodes, nodes[n].children[i], d + 1)])
             \o <<Text(Indent(d))>>
        ELSE <<>>)
    \o <<ClosingTag(nodes[n].name), Text(<<"\n">>)>>

XmlReverseParserReturned == pc \in {"xml_formatter", "read_back", "create", "write", "done"}
                            /\ mode # "xml_to_csv"

\* C8: xml_reverse_parser emits terms for the first child of the root only,
\* and for a node at depth d: Text(indentation), OpeningTag(name), Text(data)
\* iff the data is non-empty, then iff the node has children Text(newline),
\* the terms of the children at depth d+1 and Text(indentation); then
\* ClosingTag(name) and Text(newline).
C8_ReverseParserTerms ==
    XmlReverseParserReturned =>
        terms_out = NodeTerms(parser_result.val, parser_result.val[1].children[1], 0)

C8_Witness ==
    /\ XmlReverseParserReturned
    /\ doc = ExampleNested
    /\ Len(parser_result.val[1].children) = 2
    /\ Len(terms_out) = 16
    /\ terms_out[16] = Text(<<"\n">>)
    /\ terms_out[15] = ClosingTag(<<"a">>)
    /\ terms_out[5] = Text(<<" ", " ">>)

LexerFailure(st, c) ==
    IF c = "<" /\ st.current_term.tag \in {"OpeningTag", "ClosingTag"} THEN "Unexpected '<'"
    ELSE IF c = ">" /\ st.current_term.tag \in {"None", "Text"} THEN "Unexpected '>'"
    ELSE IF /\ c = "/"
            /\ \/ st.current_term.tag \in {"None", "ClosingTag"}
               \/ st.current_term.tag = "OpeningTag" /\ st.previous_char # "<"
         THEN "Unexpected '/'"
    ELSE ""

\* C9: outside skip-to-end-of-line mode the lexer fails, returning an error
\* and no terms, exactly on '<' inside a tag, on '>' outside a tag, and on
\* '/' while the accumulator is None, a ClosingTag, or an OpeningTag whose
\* previous character was not '<'; a '/' inside Text is appended and never
\* fails.
C9_LexerFailures ==
    [][/\ (pc = "lexer" /\ ~LexerDone /\ ~lx.skip_until_next_line) =>
            LET c == file_contents[lex_pos + 1]
            IN /\ lx'.err = LexerFailure(lx, c)
               /\ (c = "/" /\ lx.current_term.tag = "Text") =>
                     lx'.current_term = Text(Append(lx.current_term.s, "/"))
       /\ (pc = "lexer" /\ LexerDone) =>
            IF lx.err # ""
            THEN lexer_result' = Err(lx.err) /\ lexer_result'.val = <<>> /\ pc' = "panicked"
            ELSE lexer_result' = Ok(lx.terms)
      ]_vars

C9_Witness ==
    /\ pc = "panicked"
    /\ panic = "lexer"
    /\ file_contents = <<"<", "a", "/">>
    /\ lx.terms = <<>>
    /\ lx.current_term = OpeningTag(<<"a">>)
    /\ lexer_result = Err("Unexpected '/'")

StagesOk ==
    IF mode = "xml_to_csv"
    THEN /\ file_contents = input_file
         /\ lexer_result = lexer(input_file)
         /\ lexer_result.ok
         /\ parser_result = parser(lexer_result.val)
         /\ parser_result.ok
         /\ output_text = csv_formatter(parser_result.val, key_order)
    ELSE /\ file_contents = input_file
         /\ parser_result = csv_parser(input_file)
         /\ parser_result.ok
         /\ output_text = xml_formatter(xml_reverse_parser(parser_result.val))

LaterStagesIdle ==
    /\ panic = "open" => file_contents = <<>> /\ lx = LexerInit /\ parser_result = Unset
    /\ panic \in {"open", "lexer"} => ps = ParserInit /\ parser_result = Unset
    /\ panic # "" => key_order = <<>> /\ terms_out = <<>> /\ output_text = <<>>

\* C10: in both entry points the output file is created and written only
\* after every earlier stage has succeeded; if reading, lexing, parsing or
\* ingesting fails the conversion aborts there, no later stage runs and
\* nothing is written to the output path.
C10_OutputOnlyAfterSuccess ==
    /\ (out_file.created \/ out_file.bytes # <<>>) => panic = "" /\ StagesOk
    /\ out_file.bytes # <<>> => out_file.bytes = output_text
    /\ panic # "" <=> pc = "panicked"
    /\ panic # "" => out_file = [created |-> FALSE, bytes |-> <<>>] /\ LaterStagesIdle

C10_Witness ==
    /\ pc = "panicked"
    /\ panic = "parser"
    /\ doc = ExampleMismatch
    /\ ~parser_result.ok
    /\ out_file = [created |-> FALSE, bytes |-> <<>>]

\* C11: while parser works through the lexer's terms its node stack holds at
\* least one node and the bottom one is the root, so top never meets an
\* empty stack.
C11_StackNeverEmpty ==
    ParserEntered =>
        /\ ps.node_stack # <<>>
        /\ ps.node_stack[1] = 1
        /\ ~ps.panicked

(***************************************************************************)
(* The walk of recursive_csv_format with a record of every leaf visit: the *)
(* leaf and the accumulator it met.                                        *)
(***************************************************************************)
RECURSIVE CsvVisit(_, _, _)
RECURSIVE CsvVisitChildren(_, _, _)
CsvVisit(nodes, n, st) ==
    IF Len(nodes[n].children) = 0
    THEN [acc |-> CsvLeaf(nodes, n, st.acc),
          visits |-> Append(st.visits, [node |-> n, before |-> st.acc,
                                        after |-> CsvLeaf(nodes, n, st.acc)])]
    ELSE LET walked == CsvVisitChildren(nodes, nodes[n].children, st)
         IN [walked EXCEPT !.acc.index = @ + 1]

CsvVisitChildren(nodes, kids, st) ==
    IF kids = <<>> THEN st
    ELSE CsvVisitChildren(nodes, Tail(kids), CsvVisit(nodes, Head(kids), st))

CsvVisits(nodes) ==
    CsvVisit(nodes, 1, [acc |-> [keymap |-> <<>>, index |-> 0], visits |-> <<>>])

Contributes(nodes, n) ==
    /\ nodes[n].children = <<>>
    /\ nodes[n].name # <<>>
    /\ nodes[n].data # <<>>

PathKey(nodes, n) == Join(get_path(nodes, n), <<"/">>)

\* the values a key holds in an accumulator, none if the key is absent
Held(acc, key) == IF key \in DOMAIN acc.keymap THEN acc.keymap[key] ELSE <<>>

IsPrefix(s, t) == Len(s) <= Len(t) /\ SubSeq(t, 1, Len(s)) = s

\* C12: the step before a leaf's value is appended only pads its key's
\* sequence up to the row counter and never shortens it, so no value
\* appended earlier is removed or replaced, and after the walk the data of
\* every contributing leaf is in its key's sequence.
C12_ResizeOnlyPads ==
    CsvFormatterReturned =>
        LET nodes == parser_result.val
            walk == CsvVisits(nodes)
        IN /\ walk.acc = CsvWalk(nodes)
           /\ \A v \in 1..Len(walk.visits) :
                 LET n == walk.visits[v].node
                     before == walk.visits[v].before
                 IN Contributes(nodes, n) =>
                       /\ Len(Held(before, PathKey(nodes, n))) <= before.index
                       /\ IsPrefix(Held(before, PathKey(nodes, n)),
                                   Held(walk.acc, PathKey(nodes, n)))
           /\ \A n \in 1..Len(nodes) :
                 Contributes(nodes, n) =>
                    \E i \in 1..Len(walk.acc.keymap[PathKey(nodes, n)]) :
                       walk.acc.keymap[PathKey(nodes, n)][i] = nodes[n].data

NonLeaves(nodes) == {n \in 1..Len(nodes) : nodes[n].children # <<>>}

\* the row at which the walk appended the value of the leaf of a visit
VisitRow(visit) == visit.before.index + 1

\* C13: the row counter is incremented exactly once per non-leaf node, after
\* its children, and all contributing leaf children of one non-leaf node are
\* stored at the same row of their columns.
C13_OneRecordOneRow ==
    CsvFormatterReturned =>
        LET nodes == parser_result.val
            walk == CsvVisits(nodes)
            leaves == {v \in 1..Len(walk.visits) : Contributes(nodes, walk.visits[v].node)}
            StoredAt(v, row) ==
                LET n == walk.visits[v].node
                    column == walk.acc.keymap[PathKey(nodes, n)]
                IN Len(column) >= row /\ column[row] = nodes[n].data
        IN /\ walk.acc.index = Cardinality(NonLeaves(nodes))
           /\ \A v, w \in leaves :
                 nodes[walk.visits[v].node].parent = nodes[walk.visits[w].node].parent =>
                    /\ VisitRow(walk.visits[v]) = VisitRow(walk.visits[w])
                    /\ StoredAt(v, VisitRow(walk.visits[v]))

\* the nodes whose children list holds n, once for every occurrence
Holders(nodes, n) ==
    {pos \in (1..Len(nodes)) \X (1..Len(nodes)) :
        /\ pos[2] <= Len(nodes[pos[1]].children)
        /\ nodes[pos[1]].children[pos[2]] = n}

ParentLinks(nodes) ==
    /\ nodes[1].parent = 0
    /\ Holders(nodes, 1) = {}
    /\ \A n \in 2..Len(nodes) :
          /\ Cardinality(Holders(nodes, n)) = 1
          /\ \A pos \in Holders(nodes, n) : nodes[n].parent = pos[1]

\* C14: in every tree returned by parser or by csv_parser the root has no
\* parent and every other node has one parent reference, which is the node
\* whose children list holds it.
C14_ParentIsHolder ==
    parser_result.ok => ParentLinks(parser_result.val)

LexerReads == pc = "lexer" /\ ~LexerDone

\* C15 as stated: a '?' met outside skip mode, whatever the accumulator,
\* starts skip mode; no character from there to the next '\n' is appended
\* or fails; at that '\n' the mode ends and the accumulator is None.
C15_SkipEndsWithNone ==
    [][LexerReads =>
         LET c == file_contents[lex_pos + 1]
         IN /\ (~lx.skip_until_next_line /\ c = "?") =>
                  lx' = [lx EXCEPT !.skip_until_next_line = TRUE, !.previous_char = "?"]
            /\ (lx.skip_until_next_line /\ c # "\n") => lx' = lx
            /\ (lx.skip_until_next_line /\ c = "\n") =>
                  /\ ~lx'.skip_until_next_line
                  /\ lx'.current_term = NoneTerm
                  /\ lx'.terms = lx.terms
                  /\ lx'.err = ""
      ]_vars

\* C15, amended: as above, but the '\n' that ends skip mode is read as an
\* ordinary character once the accumulator is reset, so the step leaves the
\* accumulator at Text("\n"); the term that was accumulating at the '?' is
\* dropped and never emitted.
C15_SkipEndsWithNewlineText ==
    [][LexerReads =>
         LET c == file_contents[lex_pos + 1]
         IN /\ (~lx.skip_until_next_line /\ c = "?") =>
                  lx' = [lx EXCEPT !.skip_until_next_line = TRUE, !.previous_char = "?"]
            /\ (lx.skip_until_next_line /\ c # "\n") => lx' = lx
            /\ (lx.skip_until_next_line /\ c = "\n") =>
                  lx' = [lx EXCEPT !.skip_until_next_line = FALSE,
                                   !.previous_char = "\n",
                                   !.current_term = Text(<<"\n">>)]
      ]_vars

C15_Witness ==
    /\ doc = ExampleDeclaration
    /\ lex_pos = 8
    /\ ~lx.skip_until_next_line
    /\ lx.current_term = Text(<<"\n">>)
    /\ lx.terms = <<>>

\* the stack is a chain from the root: each node on it is the last child of
\* the one below, which is its parent
StackChain(state) ==
    /\ state.node_stack # <<>>
    /\ state.node_stack[1] = 1
    /\ \A i \in 1..(Len(state.node_stack) - 1) :
          LET below == state.nodes[state.node_stack[i]]
              above == state.node_stack[i + 1]
          IN /\ state.nodes[above].parent = state.node_stack[i]
             /\ below.children # <<>>
             /\ Last(below.children) = above

\* nodes are numbered as they are opened
DocumentOrder(nodes) ==
    \A n \in 1..Len(nodes) :
       \A i, j \in 1..Len(nodes[n].children) :
          i < j => nodes[n].children[i] < nodes[n].children[j]

ChildrenLists(nodes) == [n \in 1..Len(nodes) |-> nodes[n].children]

\* what the claim says of the step that consumes the next term
ParserStepAsDescribed ==
    LET term == lexer_result.val[parse_pos + 1]
        new_node == Len(ps.nodes) + 1
    IN /\ StackChain(ps')
       /\ DocumentOrder(ps'.nodes)
       /\ term.tag = "OpeningTag" =>
             /\ Len(ps'.nodes) = new_node
             /\ ps'.nodes[new_node] =
                   [name |-> term.s, data |-> <<>>,
                    parent |-> Last(ps.node_stack), children |-> <<>>]
             /\ ps'.nodes[Last(ps.node_stack)].children =
                   Append(ps.nodes[Last(ps.node_stack)].children, new_node)
             /\ ps'.node_stack = Append(ps.node_stack, new_node)
       /\ term.tag = "Text" =>
             /\ ps'.nodes =
                   [ps.nodes EXCEPT ![Last(ps.node_stack)].data = @ \o term.s]
             /\ ps'.node_stack = ps.node_stack
             /\ ChildrenLists(ps'.nodes) = ChildrenLists(ps.nodes)

\* C16: after every term the stack is a chain from the root through the
\* elements opened and not yet closed; an OpeningTag makes a node whose
\* parent is the top, appends it as the top's last child and pushes it, so
\* children are in document order; a Text term appends to the data of the
\* top only and changes neither the stack nor any children list.
C16_StackChain ==
    [][(pc = "parser" /\ ~ParserDone) => ParserStepAsDescribed]_vars

\* The chain breaks only when a ClosingTag named root closes the root.
ClosesRoot ==
    \/ ps.node_stack = <<>>
    \/ ps.node_stack = <<1>> /\ lexer_result.val[parse_pos + 1] = ClosingTag(StrRoot)

StackChainUnlessRootClosed ==
    [][(pc = "parser" /\ ~ParserDone /\ ~ClosesRoot) => ParserStepAsDescribed]_vars

\* the keys whose sequence a visit changed
ColumnsOf(visit) ==
    {k \in DOMAIN visit.after.keymap : Held(visit.before, k) # visit.after.keymap[k]}

\* C17: a node contributes a value if and only if it has no children and
\* its name and data are non-empty, and data of a node with children is
\* never output; two contributing leaves share a column if and only if
\* their ancestor-name paths are equal, whatever their local names; the
\* header title of a column is the last segment of its path.
C17_ColumnsByPath ==
    CsvFormatterReturned =>
        LET nodes == parser_result.val
            walk == CsvVisits(nodes)
            visits == walk.visits
            leaves == {n \in 1..Len(nodes) : Contributes(nodes, n)}
            title == [i \in 1..Len(key_order) |->
                         nodes[CHOOSE n \in leaves : PathKey(nodes, n) = key_order[i]].name]
        IN /\ \A v \in 1..Len(visits) :
                 LET n == visits[v].node
                 IN IF n \in leaves
                    THEN /\ Cardinality(ColumnsOf(visits[v])) = 1
                         /\ \A k \in ColumnsOf(visits[v]) :
                               Last(visits[v].after.keymap[k]) = nodes[n].data
                    ELSE visits[v].after = visits[v].before
           /\ {visits[v].node : v \in 1..Len(visits)} =
                 {n \in 1..Len(nodes) : nodes[n].children = <<>>}
           /\ \A v, w \in 1..Len(visits) :
                 (visits[v].node \in leaves /\ visits[w].node \in leaves) =>
                    (ColumnsOf(visits[v]) = ColumnsOf(visits[w])
                        <=> get_path(nodes, visits[v].node) = get_path(nodes, visits[w].node))
           /\ {key_order[i] : i \in 1..Len(key_order)} = {PathKey(nodes, n) : n \in leaves}
           /\ IsPrefix(Join(title, <<",">>) \o <<"\n">>, output_text)

C17_Witness ==
    /\ CsvFormatterReturned
    /\ doc = ExampleSameName
    /\ Len(key_order) = 2
    /\ CsvWalk(parser_result.val).keymap[<<"r", "o", "o", "t", "/", "a", "/", "n">>]
          = <<<<"1">>, <<>>, <<"3">>>>
    /\ CsvWalk(parser_result.val).keymap[<<"r", "o", "o", "t", "/", "b", "/", "n">>]
          = <<<<>>, <<"2">>>>
    /\ SubSeq(output_text, 1, 4) = <<"n", ",", "n", "\n">>

\* the names from the top-level element holding n down to n, root left out
RECURSIVE NamesBelowRoot(_, _)
NamesBelowRoot(nodes, n) ==
    IF nodes[n].parent = 0 THEN <<>>
    ELSE Append(NamesBelowRoot(nodes, nodes[n].parent), nodes[n].name)

\* C18: the column key of a leaf of a tree built by parser is the names from
\* the top-level element down to the leaf joined by '/', the root wrapper
\* left out: leaf x inside top-level element a has key a/x.
C18_KeyWithoutRoot ==
    CsvFormatterReturned =>
        LET nodes == parser_result.val
        IN {key_order[i] : i \in 1..Len(key_order)} =
              {Join(NamesBelowRoot(nodes, n), <<"/">>) :
                  n \in {m \in 1..Len(nodes) : Contributes(nodes, m)}}

\* C18, amended: the column key is the names from the root down to the leaf
\* joined by '/', the root's own name "root" included as the first segment:
\* leaf x inside top-level element a has key root/a/x.
C18_KeyStartsAtRoot ==
    CsvFormatterReturned =>
        LET nodes == parser_result.val
        IN {key_order[i] : i \in 1..Len(key_order)} =
              {Join(<<StrRoot>> \o NamesBelowRoot(nodes, n), <<"/">>) :
                  n \in {m \in 1..Len(nodes) : Contributes(nodes, m)}}

C18_Witness ==
    /\ CsvFormatterReturned
    /\ doc = RecordItems(<<"1">>, <<"1">>)
    /\ key_order = <<<<"r", "o", "o", "t", "/", "a", "/", "x">>,
                     <<"r", "o", "o", "t", "/", "a", "/", "y">>>>

CleanTerm(term) ==
    /\ term.tag \in {"OpeningTag", "ClosingTag", "Text"}
    /\ term.s # <<>>
    /\ term.s[1] \notin Whitespace
    /\ Last(term.s) \notin Whitespace

CleanTerms(terms) == \A i \in 1..Len(terms) : CleanTerm(terms[i])

\* the lexer's next character makes it flush the accumulator
Flushes(st, c) ==
    /\ ~st.skip_until_next_line
    /\ \/ c = "<" /\ st.current_term.tag = "Text"
       \/ c = ">" /\ st.current_term.tag \in {"OpeningTag", "ClosingTag"}

\* C19: every term of a successful lexer output is an OpeningTag, a
\* ClosingTag or a Text, never None, with non-empty content that neither
\* starts nor ends with whitespace; a flush emits the trimmed accumulator if
\* it is non-empty and leaves the accumulator None (from which a flushing
\* '<' at once starts its empty OpeningTag); so parser makes no node with an
\* empty name: <> and < > give no term.
C19_FlushRule ==
    [][/\ CleanTerms(lx'.terms)
       /\ lexer_result'.ok => CleanTerms(lexer_result'.val)
       /\ \A n \in 2..Len(ps'.nodes) : ps'.nodes[n].name # <<>>
       /\ LexerReads =>
            LET c == file_contents[lex_pos + 1]
                content == Stripped(lx.current_term.s)
            IN IF Flushes(lx, c)
               THEN /\ lx'.terms = IF content = <<>> THEN lx.terms
                                   ELSE Append(lx.terms,
                                               [tag |-> lx.current_term.tag, s |-> content])
                    /\ lx'.current_term = IF c = ">" THEN NoneTerm ELSE OpeningTag(<<>>)
               ELSE lx'.terms = lx.terms
       /\ (LexerReturned' /\ input_file \in {<<"<", ">">>, <<"<", " ", ">">>}) =>
            lexer_result' = Ok(<<>>)
      ]_vars

C19_Witness ==
    /\ ParserReturned
    /\ input_file = <<"<", " ", ">", "<", "b", " ", ">", "x">>
    /\ lexer_result = Ok(<<OpeningTag(<<"b">>)>>)
    /\ Len(ps.nodes) = 2
    /\ ps.nodes[2].name = <<"b">>

\* the content of what is still accumulating when the input ends
Pending(st) == Stripped(st.current_term.s)

\* C20: lexer flushes the accumulating term at the end of the input: a
\* non-blank text run or tag name still accumulating when the last character
\* is consumed is the last term of the successful output.
C20_FlushAtEnd ==
    (LexerReturned /\ lexer_result.ok /\ ~lx.skip_until_next_line /\ Pending(lx) # <<>>) =>
        /\ lexer_result.val # <<>>
        /\ Last(lexer_result.val) = [tag |-> lx.current_term.tag, s |-> Pending(lx)]

IsSuffix(s, t) == Len(s) <= Len(t) /\ SubSeq(t, Len(t) - Len(s) + 1, Len(t)) = s

XmlFormatterReturned ==
    mode = "csv_to_xml" /\ pc \in {"create", "write", "done"} /\ panic = ""

\* C21: every tree csv_parser returns has a child beneath the root, so after
\* a successful csv_parser xml_reverse_parser never panics, and the rendered
\* text starts with the declaration line followed by the opening tag of the
\* inner root and ends with its closing tag and a newline.
C21_ImportSerializes ==
    /\ (CsvParserReturned /\ parser_result.ok) =>
          /\ Len(parser_result.val[1].children) >= 1
          /\ panic = ""
          /\ pc # "panicked"
    /\ XmlFormatterReturned =>
          LET inner == parser_result.val[parser_result.val[1].children[1]].name
          IN /\ inner = StrRoot2
             /\ IsPrefix(XmlDeclaration \o <<"<">> \o inner \o <<">">>, output_text)
             /\ IsSuffix(<<"<", "/">> \o inner \o <<">", "\n">>, output_text)
    /\ (mode = "csv_to_xml" /\ panic \notin {"", "open"}) =>
          panic = "csv_parser" /\ ~parser_result.ok

C21_Witness ==
    /\ XmlFormatterReturned
    /\ pc = "done"
    /\ input_file = <<"n", "\n", "A">>
    /\ out_file.bytes =
          XmlDeclaration
          \o <<"<", "r", "o", "o", "t", "2", ">", "\n">>
          \o <<" ", " ", "<", "e", "l", "e", "m", "e", "n", "t", ">", "\n">>
          \o <<" ", " ", " ", " ", "<", "n", ">", "A", "<", "/", "n", ">", "\n">>
          \o <<" ", " ", "<", "/", "e", "l", "e", "m", "e", "n", "t", ">", "\n">>
          \o <<"<", "/", "r", "o", "o", "t", "2", ">", "\n">>

CleanField(s) ==
    /\ s # <<>>
    /\ Stripped(s) = s
    /\ NoneOf(s, {"<", ">", "/", "?"})

\* the lines are a header of distinct names and at least one row, each row
\* with one field per column, all names and fields clean
IsCleanTable(lines) ==
    /\ Len(lines) >= 2
    /\ LET header == Pieces(lines[1], ",")
       IN /\ \A i, j \in 1..Len(header) : header[i] = header[j] => i = j
          /\ \A i \in 1..Len(lines) :
                LET fields == Pieces(lines[i], ",")
                IN /\ Len(fields) = Len(header)
                   /\ \A j \in 1..Len(fields) : CleanField(fields[j])

ColumnOrders(k) ==
    {p \in [1..k -> 1..k] : \A i, j \in 1..k : p[i] = p[j] => i = j}

\* the table of the lines with its columns in the order p
TableText(lines, p) ==
    Flatten([i \in 1..Len(lines) |->
                LET fields == Pieces(lines[i], ",")
                IN Join([j \in 1..Len(fields) |-> fields[p[j]]], <<",">>) \o <<"\n">>])

TableLines == Pieces(Stripped(input_file), "\n")

ConvertedBack == mode = "xml_to_csv" /\ pc \in {"create", "write", "done"}

\* C22: for a table of pairwise distinct column names and n >= 1 rows with
\* one field per column, names and values non-empty, without leading or
\* trailing whitespace and without ',', newline, '<', '>', '/', '?':
\* csv_parser, xml_reverse_parser, xml_formatter and then lexer, parser and
\* csv_formatter on the markup all succeed, and the result is the header
\* with the same titles and exactly the n rows in their order with their
\* values, the columns of header and rows under one permutation.
C22_TableRoundTrip ==
    /\ panic \notin {"", "open"} => ~IsCleanTable(TableLines)
    /\ ConvertedBack /\ file_contents # <<>> =>
          LET lines == TableLines
          IN IsCleanTable(lines) =>
                \E p \in ColumnOrders(Len(Pieces(lines[1], ","))) :
                   output_text = TableText(lines, p)

C22_Witness ==
    /\ ConvertedBack
    /\ pc = "done"
    /\ input_file = ExampleCsv
    /\ IsCleanTable(TableLines)
    /\ out_file.bytes =
          <<"a", "g", "e", ",", "n", "a", "m", "e", "\n",
            "3", "0", ",", "A", "l", "i", "c", "e", "\n",
            "2", "5", ",", "B", "o", "b", "\n">>

====
